---- MODULE Spec2Model ----
(***************************************************************************)
(* go-temp: the RabbitMQ publishing client (package rabbitmq: Client,      *)
(* NewClient, connect, PublishJSON, reconnectWithBackoff, Close) and the   *)
(* main loop that registers the "local" and "remote" clients, publishes    *)
(* one TemperatureMessage per ticker tick to each of them and closes them  *)
(* on SIGINT/SIGTERM.                                                      *)
(*                                                                         *)
(* The specifications share the client's steps:                            *)
(*   Spec        main(): startup, ticker loop, shutdown.                   *)
(*   FairSpec    Spec with main's goroutine making progress.               *)
(*   SpecClient  the exported API of package rabbitmq driven directly      *)
(*               (NewClient or a zero-value Client, PublishJSON with any   *)
(*               payload, Close any number of times).                      *)
(* The broker is the environment: it may close a session's channel or      *)
(* connection at any moment, reject a send with another error, and fail    *)
(* any stage of connect(). The HTTP goroutine only reads the health flag    *)
(* and is represented by what its handler would answer.                    *)
(***************************************************************************)
EXTENDS Integers, Sequences, FiniteSets, TLC

VARIABLES
    pc,         \* position of main() (or of the API driver in SpecClient)
    uri,        \* uri[n]: RABBITMQ_<n>_URI is non-empty
    clients,    \* main.clients: names of the registered clientRefs, in order
    idx,        \* index of the range loop over clients (publish / close)
    msg,        \* id of the TemperatureMessage built on the current tick
    ticks,      \* ticker ticks serviced so far
    healthy,    \* var healthy
    listening,  \* the goroutine serving /metrics and /healthz was started
    fatalWhy,   \* which log.Fatal ended the process ("" while running)
    gauge,      \* tempGauge: id of the last reading set
    msgCount,   \* msgCount counter
    initOk,     \* outcome of NewClient at startup, per endpoint
    conn,       \* Client.conn per session: handle id, 0 = nil
    channel,    \* Client.channel per session: handle id, 0 = nil
    connOpen,   \* connection handles that are open
    chanOpen,   \* channel handles that are open
    callPc,     \* position inside the current PublishJSON call
    callee,     \* session the current PublishJSON call runs on
    payload,    \* payload of the current PublishJSON call
    i,          \* reconnectWithBackoff: loop counter
    backoff,    \* reconnectWithBackoff: backoff in seconds
    result,     \* error returned by the current PublishJSON call
    delivered,  \* per session: bodies the broker accepted on its queue
    closeCalls, \* sessions Close() was called on, in call order
    released,   \* releases the last Close() performed, with their results
    h,          \* history of the current top-level PublishJSON call
    faulty,     \* sessions the broker has closed or rejected a send of
    allMsgs,    \* ids of the messages of the ticks whose read succeeded
    called,     \* sessions PublishJSON was called on during the current tick
    signalled,  \* the shutdown signal was received
    ncalls,     \* PublishJSON calls made by the API driver
    lost        \* per session: id of the last message whose PublishJSON
                \* returned "retries exhausted" to main (0: none)

mainVars == <<pc, uri, clients, idx, msg, ticks, healthy, listening, fatalWhy,
              gauge, msgCount, initOk>>
sessVars == <<conn, channel, connOpen, chanOpen>>
callVars == <<callPc, callee, payload, i, backoff, result>>
closeVars == <<closeCalls, released>>
tickLog == <<allMsgs, called, signalled, ncalls, lost>>
vars == <<mainVars, sessVars, callVars, closeVars, tickLog, delivered, h, faulty>>

----------------------------------------------------------------------------
(* Bounds of the model *)
MaxTicks == 2      \* ticker ticks explored with one registered client
MaxTicksBoth == 1  \* ticker ticks explored with both clients registered
MaxCalls == 2      \* PublishJSON calls made by the API driver
MaxCloses == 2     \* Close() calls made by the API driver
MaxMsg == 1        \* encodable payloads the API driver uses are 1..MaxMsg
PoolSize == 2      \* handle ids per session; an unreferenced id is reused

Names == {"local", "remote"}
Pool(c) == IF c = "local" THEN 1..PoolSize ELSE (PoolSize + 1)..(2 * PoolSize)
Handles == Pool("local") \cup Pool("remote")

RECURSIVE Pow2(_)
Pow2(n) == IF n = 0 THEN 1 ELSE 2 * Pow2(n - 1)

InSeq(x, s) == \E k \in 1..Len(s) : s[k] = x

----------------------------------------------------------------------------
(* package rabbitmq *)

MarshalMut(p) ==
    IF p > 0 THEN [err |-> FALSE, body |-> <<"application/json", p>>]
    ELSE [err |-> FALSE, body |-> <<>>]

\* json.Marshal(payload): TemperatureMessage values (ids >= 1) encode to a
\* JSON body; payload 0 stands for a value encoding/json rejects.
Marshal(p) ==
    IF p > 0 THEN [err |-> FALSE, body |-> <<"application/json", p>>]
    ELSE [err |-> TRUE, body |-> <<>>]

\* amqp.Dial / conn.Channel hand out handles never seen by the program. A
\* handle no session refers to can never be used by the program again: its id
\* is reused, and the next connect() forgets what state it was left in.
Referenced == {conn[n] : n \in Names} \cup {channel[n] : n \in Names}
Fresh(c) == CHOOSE id \in Pool(c) : id \notin Referenced
                                    /\ \A o \in Pool(c) : o \notin Referenced => id <= o

Stage(name, ok) == [stage |-> name, ok |-> ok]

connectStagesMut(dialOk, chanOk, declOk) ==
    IF ~dialOk THEN [stages |-> <<Stage("dial", FALSE)>>, outcome |-> "dial"]
    ELSE IF ~declOk
    THEN [stages |-> <<Stage("dial", TRUE), Stage("channel", chanOk),
                       Stage("declare", FALSE)>>,
          outcome |-> "declare"]
    ELSE [stages |-> <<Stage("dial", TRUE), Stage("channel", chanOk),
                       Stage("declare", TRUE)>>,
          outcome |-> "ok"]

\* The control flow of connect(), lines 49-68: amqp.Dial / DialTLS, then
\* conn.Channel(), then ch.QueueDeclare(), with a return after each stage
\* whose error is not nil. The arguments say whether each stage would succeed
\* when called; the result is the stages called, each with how it ended, and
\* the stage that made connect() return (or "ok").
connectStages(dialOk, chanOk, declOk) ==
    IF ~dialOk THEN [stages |-> <<Stage("dial", FALSE)>>, outcome |-> "dial"]
    ELSE IF ~chanOk
    THEN [stages |-> <<Stage("dial", TRUE), Stage("channel", FALSE)>>,
          outcome |-> "channel"]
    ELSE IF ~declOk
    THEN [stages |-> <<Stage("dial", TRUE), Stage("channel", TRUE),
                       Stage("declare", FALSE)>>,
          outcome |-> "declare"]
    ELSE [stages |-> <<Stage("dial", TRUE), Stage("channel", TRUE),
                       Stage("declare", TRUE)>>,
          outcome |-> "ok"]

ConnectOutcomes ==
    {connectStages(d, c, q).outcome : d \in BOOLEAN, c \in BOOLEAN, q \in BOOLEAN}

connectCloseOldMut(c, outcome) ==
    LET id == Fresh(c) IN
    [conn |-> IF outcome = "ok" THEN [conn EXCEPT ![c] = id] ELSE conn,
     channel |-> IF outcome = "ok" THEN [channel EXCEPT ![c] = id] ELSE channel,
     connOpen |-> IF outcome = "dial" THEN connOpen \cap Referenced
                  ELSE IF outcome = "ok"
                  THEN ((connOpen \cap Referenced) \ {conn[c]}) \cup {id}
                  ELSE (connOpen \cap Referenced) \cup {id},
     chanOpen |-> IF outcome = "ok"
                  THEN ((chanOpen \cap Referenced) \ {channel[c]}) \cup {id}
                  ELSE IF outcome = "declare"
                  THEN (chanOpen \cap Referenced) \cup {id}
                  ELSE chanOpen \cap Referenced,
     err |-> CASE outcome = "ok" -> "nil"
               [] outcome = "dial" -> "dial failed"
               [] outcome = "channel" -> "channel failed"
               [] OTHER -> "queue declare failed"]

connectEarlyStoreMut(c, outcome) ==
    LET id == Fresh(c) IN
    [conn |-> IF outcome # "dial" THEN [conn EXCEPT ![c] = id] ELSE conn,
     channel |-> IF outcome = "ok" THEN [channel EXCEPT ![c] = id] ELSE channel,
     connOpen |-> IF outcome = "dial" THEN connOpen \cap Referenced
                  ELSE (connOpen \cap Referenced) \cup {id},
     chanOpen |-> IF outcome \in {"ok", "declare"}
                  THEN (chanOpen \cap Referenced) \cup {id}
                  ELSE chanOpen \cap Referenced,
     err |-> CASE outcome = "ok" -> "nil"
               [] outcome = "dial" -> "dial failed"
               [] outcome = "channel" -> "channel failed"
               [] OTHER -> "queue declare failed"]

\* Client.connect(): dial, conn.Channel(), ch.QueueDeclare(); the handles are
\* stored only after all three succeeded. outcome names the stage that fails.
connect(c, outcome) ==
    LET id == Fresh(c) IN
    [conn |-> IF outcome = "ok" THEN [conn EXCEPT ![c] = id] ELSE conn,
     channel |-> IF outcome = "ok" THEN [channel EXCEPT ![c] = id] ELSE channel,
     connOpen |-> IF outcome = "dial" THEN connOpen \cap Referenced
                  ELSE (connOpen \cap Referenced) \cup {id},
     chanOpen |-> IF outcome \in {"ok", "declare"}
                  THEN (chanOpen \cap Referenced) \cup {id}
                  ELSE chanOpen \cap Referenced,
     err |-> CASE outcome = "ok" -> "nil"
               [] outcome = "dial" -> "dial failed"
               [] outcome = "channel" -> "channel failed"
               [] OTHER -> "queue declare failed"]

\* The stages a connect() that returned err went through.
Stages(err) ==
    CASE err = "dial failed" -> <<"dial">>
      [] err = "channel failed" -> <<"dial", "channel">>
      [] OTHER -> <<"dial", "channel", "declare">>

\* The session variables after connect(c, outcome).
Connected(c, outcome) ==
    LET r == connect(c, outcome) IN
    /\ conn' = r.conn
    /\ channel' = r.channel
    /\ connOpen' = r.connOpen
    /\ chanOpen' = r.chanOpen

IsErrClosedMut(err) == err \in {"ErrClosed", "other"}

\* errors.Is(err, amqp.ErrClosed)
IsErrClosed(err) == err = "ErrClosed"

\* for i := 0; i < 5; i++
MaxAttempts == 5

LoopCondMut(k) == k <= MaxAttempts

\* The loop condition i < 5 of reconnectWithBackoff.
LoopCond(k) == k < MaxAttempts

RetryMut(err) == err = "nil" \/ err = "ErrClosed"

\* PublishJSON line 85: err != nil && errors.Is(err, amqp.ErrClosed)
Retry(err) == err # "nil" /\ IsErrClosed(err)

AfterConnectMut(err) == IF err = "nil" THEN "ret" ELSE "loop"

\* reconnectWithBackoff lines 97-100: a connect() without error is followed
\* by a new PublishJSON(payload), a failed one by the next loop iteration.
AfterConnect(err) == IF err = "nil" THEN "publish" ELSE "loop"

\* backoff := time.Second
InitialBackoff == 1

NextBackoffMut(b) == b + 1

\* backoff *= 2
NextBackoff(b) == b * 2

\* What channel.Publish can return on session c: amqp.ErrClosed on a closed
\* channel, otherwise nil or some other transport error.
SendErrors(c) ==
    IF channel[c] \in chanOpen THEN {"nil", "other"} ELSE {"ErrClosed"}

\* History of one top-level PublishJSON call. depth is 0 before the first
\* reconnect cycle, 1 from its start to the send that follows it, and 2 in
\* every later cycle. stages lists the stages called by the connect() that
\* was the call's last operation, each with how it ended.
\* connects, slept, firstOk (the attempt of the first
\* cycle that connected), retrySend (the error of the send after it) and
\* sentAt (the seconds slept before the accepted send) are kept while
\* depth <= 1; the cyc* fields describe the current cycle.
NoHist ==
    [connects |-> 0, slept |-> 0, depth |-> 0,
     firstSend |-> "none", retrySend |-> "none", firstOk |-> 0, sentAt |-> 0,
     base |-> 0, handles0 |-> <<0, 0>>,
     cycConnects |-> 0, cycFails |-> 0, cycSleeps |-> <<>>, lastOp |-> "none",
     stages |-> <<>>]

NewHist(c) ==
    [NoHist EXCEPT !.base = Len(delivered[c]),
                   !.handles0 = <<conn[c], channel[c]>>,
                   !.lastOp = "call"]

Tracked == h.depth <= 1

\* Bodies the current call has had accepted so far.
Sent == Len(delivered[callee]) - h.base

\* PublishJSON has returned: its locals are gone.
Returned ==
    /\ callPc' = "idle"
    /\ payload' = 0
    /\ i' = 0
    /\ backoff' = 0
    /\ result' = "nil"
    /\ h' = NoHist
    /\ UNCHANGED callee

\* Handles no session refers to any more are out of the program's reach.
Forget ==
    /\ connOpen' = connOpen \cap Referenced
    /\ chanOpen' = chanOpen \cap Referenced
    /\ UNCHANGED <<conn, channel>>

\* The caller enters PublishJSON(p) on session c.
Call(c, p) ==
    /\ callPc' = "publish"
    /\ callee' = c
    /\ payload' = p
    /\ result' = "nil"
    /\ h' = NewHist(c)
    /\ UNCHANGED <<i, backoff>>

\* History of a send with error e. Entering a second reconnect cycle drops
\* what was recorded about the first one.
SendHist(e) ==
    IF Retry(e) /\ h.depth >= 1
    THEN [NoHist EXCEPT !.lastOp = "send:" \o e, !.depth = 2, !.firstSend = h.firstSend,
                        !.base = h.base, !.handles0 = h.handles0]
    ELSE [h EXCEPT !.lastOp = "send:" \o e,
                   !.stages = <<>>,
                   !.sentAt = IF e = "nil" THEN h.slept ELSE h.sentAt,
                   !.firstSend = IF h.firstSend = "none" THEN e ELSE h.firstSend,
                   !.retrySend = IF h.depth = 1 THEN e ELSE h.retrySend,
                   !.depth = IF Retry(e) THEN 1 ELSE h.depth]

\* PublishJSON lines 76-89: marshal, publish on the channel, and either
\* return the error or enter reconnectWithBackoff. A nil channel (zero-value
\* Client) makes channel.Publish dereference nil.
PublishJSON ==
    /\ callPc = "publish"
    /\ pc # "fatal"
    /\ LET m == Marshal(payload) IN
       IF m.err
       THEN /\ callPc' = "ret"
            /\ result' = "marshal"
            /\ h' = [h EXCEPT !.lastOp = "marshal:err"]
            /\ UNCHANGED <<callee, payload, i, backoff, delivered, faulty>>
       ELSE IF channel[callee] = 0
       THEN /\ callPc' = "panic"
            /\ h' = [h EXCEPT !.lastOp = "panic"]
            /\ UNCHANGED <<callee, payload, i, backoff, result, delivered, faulty>>
       ELSE \E err \in SendErrors(callee) :
            /\ delivered' = IF err = "nil"
                            THEN [delivered EXCEPT ![callee] = Append(@, m.body)]
                            ELSE delivered
            /\ faulty' = IF err = "nil" THEN faulty ELSE faulty \cup {callee}
            /\ h' = SendHist(err)
            /\ IF Retry(err)
               THEN /\ backoff' = InitialBackoff
                    /\ i' = 0
                    /\ IF LoopCond(0)
                       THEN callPc' = "sleep" /\ result' = result
                       ELSE callPc' = "ret" /\ result' = "exhausted"
               ELSE /\ callPc' = "ret"
                    /\ result' = err
                    /\ UNCHANGED <<i, backoff>>
            /\ UNCHANGED <<callee, payload>>
    /\ UNCHANGED <<mainVars, sessVars, closeVars, tickLog>>

\* reconnectWithBackoff line 95: time.Sleep(backoff)
reconnectSleep ==
    /\ callPc = "sleep"
    /\ pc # "fatal"
    /\ callPc' = "connect"
    /\ h' = [h EXCEPT !.lastOp = "sleep",
                      !.stages = <<>>,
                      !.slept = IF Tracked THEN h.slept + backoff ELSE h.slept,
                      !.cycSleeps = Append(h.cycSleeps, backoff)]
    /\ UNCHANGED <<callee, payload, i, backoff, result>>
    /\ UNCHANGED <<mainVars, sessVars, closeVars, tickLog, delivered, faulty>>

\* reconnectWithBackoff lines 96-102: connect(); on success call PublishJSON
\* again and return what it returns, otherwise double the backoff and loop.
reconnectConnect ==
    /\ callPc = "connect"
    /\ pc # "fatal"
    /\ \E dialOk, chanOk, declOk \in BOOLEAN :
        LET outcome == connectStages(dialOk, chanOk, declOk).outcome IN
        /\ Connected(callee, outcome)
        /\ h' = [h EXCEPT !.lastOp = "connect:" \o connect(callee, outcome).err,
                          !.stages = connectStages(dialOk, chanOk, declOk).stages,
                          !.connects = IF Tracked THEN h.connects + 1 ELSE h.connects,
                          !.cycConnects = h.cycConnects + 1,
                          !.cycFails = IF outcome = "ok" THEN h.cycFails ELSE h.cycFails + 1,
                          !.firstOk = IF outcome = "ok" /\ h.depth = 1
                                      THEN i + 1 ELSE h.firstOk]
        /\ IF AfterConnect(connect(callee, outcome).err) # "loop"
           THEN /\ callPc' = AfterConnect(connect(callee, outcome).err)
                /\ UNCHANGED <<i, backoff, result>>
           ELSE /\ backoff' = NextBackoff(backoff)
                /\ i' = i + 1
                /\ IF LoopCond(i + 1)
                   THEN callPc' = "sleep" /\ result' = result
                   ELSE callPc' = "ret" /\ result' = "exhausted"
    /\ UNCHANGED <<callee, payload>>
    /\ UNCHANGED <<mainVars, closeVars, tickLog, delivered, faulty>>

\* amqp's (*Channel).Close / (*Connection).Close on handle hd of the given
\* kind: nil when it was open, ErrClosed when it was closed already; a nil
\* receiver is dereferenced.
Release(kind, hd) ==
    [what |-> kind,
     res |-> IF hd = 0 THEN "panic"
             ELSE IF kind = "channel" /\ hd \in chanOpen THEN "nil"
             ELSE IF kind = "conn" /\ hd \in connOpen THEN "nil"
             ELSE "ErrClosed"]

CloseMut(c) ==
    [released |-> <<Release("channel", channel[c]), Release("conn", conn[c])>>,
     chanOpen |-> chanOpen \ {channel[c], conn[c]},
     connOpen |-> connOpen \ {conn[c]}]

\* Client.Close(): channel.Close() if the channel is set, then conn.Close()
\* if the connection is set; both errors are discarded.
Close(c) ==
    [released |-> (IF channel[c] # 0 THEN <<Release("channel", channel[c])>> ELSE <<>>)
                  \o (IF conn[c] # 0 THEN <<Release("conn", conn[c])>> ELSE <<>>),
     chanOpen |-> chanOpen \ {channel[c], conn[c]},
     connOpen |-> connOpen \ {conn[c]}]

\* The variables after Close() on session c.
Closed(c) ==
    /\ released' = Close(c).released
    /\ chanOpen' = Close(c).chanOpen
    /\ connOpen' = Close(c).connOpen
    /\ closeCalls' = Append(closeCalls, c)
    /\ UNCHANGED <<conn, channel>>

----------------------------------------------------------------------------
(* The broker *)

Running == pc \notin {"done", "fatal"} /\ callPc # "panic"

\* The connection of session c is lost: the connection and its channel close.
BrokerCloseConn ==
    /\ Running
    /\ \E c \in Names :
        /\ conn[c] \in connOpen
        /\ connOpen' = connOpen \ {conn[c]}
        /\ chanOpen' = chanOpen \ {conn[c]}
        /\ faulty' = faulty \cup {c}
    /\ UNCHANGED <<conn, channel>>
    /\ UNCHANGED <<mainVars, callVars, closeVars, tickLog, delivered, h>>

\* The broker closes the channel of session c, the connection stays open.
BrokerCloseChannel ==
    /\ Running
    /\ \E c \in Names :
        /\ channel[c] \in chanOpen
        /\ chanOpen' = chanOpen \ {channel[c]}
        /\ faulty' = faulty \cup {c}
    /\ UNCHANGED <<conn, channel, connOpen>>
    /\ UNCHANGED <<mainVars, callVars, closeVars, tickLog, delivered, h>>

----------------------------------------------------------------------------
(* main() *)

\* rabbitmq.LoadTLSConfig(useTLS, useMTLS): nil without TLS; otherwise the
\* client key pair (mTLS only) and the CA certificate must load.
LoadTLSConfig(useTLS, useMTLS, keyPairOk, caReadOk, caPemOk) ==
    IF ~useTLS THEN [cfg |-> "nil", err |-> "nil"]
    ELSE IF useMTLS /\ ~keyPairOk THEN [cfg |-> "nil", err |-> "failed to load client certs"]
    ELSE IF ~caReadOk THEN [cfg |-> "nil", err |-> "failed to read CA cert"]
    ELSE IF ~caPemOk THEN [cfg |-> "nil", err |-> "failed to append CA cert"]
    ELSE [cfg |-> IF useMTLS THEN "mtls" ELSE "tls", err |-> "nil"]

NewClientMut(c, outcome) ==
    [client |-> <<c>>, err |-> connect(c, outcome).err]

\* rabbitmq.NewClient: a Client is returned only when its connect() succeeds.
NewClient(c, outcome) ==
    [client |-> IF connect(c, outcome).err = "nil" THEN <<c>> ELSE <<>>,
     err |-> connect(c, outcome).err]

\* if len(clients) == 0 { log.Fatal(...) }
NoConnections(cs) == Len(cs) = 0

AfterPublishMut(k, err) == IF err # "nil" THEN Len(clients) + 1 ELSE k + 1

\* The range loop of a tick after PublishJSON returned err for clients[k]: the
\* error is logged and the loop goes on with the next client.
AfterPublish(k, err) == k + 1

ShutdownTargetMut(k) == clients[Len(clients) - k + 1]

\* The client the k-th iteration of the shutdown loop closes.
ShutdownTarget(k) == clients[k]

Die(why) ==
    /\ pc' = "fatal"
    /\ fatalWhy' = why

\* main lines 116-140: log file, sensor path, environment, TLS configuration.
Startup ==
    /\ pc = "start"
    /\ \E loggerOk, sensorOk, useTLS, useMTLS, filesOk \in BOOLEAN :
        IF ~loggerOk THEN Die("logger")
        ELSE IF ~sensorOk THEN Die("sensor")
        ELSE IF LoadTLSConfig(useTLS, useMTLS, filesOk, filesOk, filesOk).err # "nil"
        THEN Die("tls")
        ELSE pc' = "regLocal" /\ fatalWhy' = fatalWhy
    /\ UNCHANGED <<uri, clients, idx, msg, ticks, healthy, listening, gauge,
                   msgCount, initOk>>
    /\ UNCHANGED <<sessVars, callVars, closeVars, tickLog, delivered, h, faulty>>

\* if <name>URI != "" { NewClient; log the failure or append the clientRef }
Register(c, next) ==
    /\ IF uri[c]
       THEN \E outcome \in ConnectOutcomes :
            /\ Connected(c, outcome)
            /\ clients' = clients \o NewClient(c, outcome).client
            /\ initOk' = [initOk EXCEPT ![c] = NewClient(c, outcome).err]
       ELSE UNCHANGED <<sessVars, clients, initOk>>
    /\ pc' = next
    /\ UNCHANGED <<uri, idx, msg, ticks, healthy, listening, fatalWhy, gauge,
                   msgCount>>
    /\ UNCHANGED <<callVars, closeVars, tickLog, delivered, h, faulty>>

\* main lines 149-156
RegLocal == pc = "regLocal" /\ Register("local", "regRemote")

\* main lines 158-165
RegRemote == pc = "regRemote" /\ Register("remote", "check")

\* main lines 167-189: the fatal exit without clients, else the HTTP
\* goroutine, the signal channel and the ticker are set up.
Check ==
    /\ pc = "check"
    /\ IF NoConnections(clients)
       THEN Die("noclients") /\ listening' = listening
       ELSE pc' = "loop" /\ listening' = TRUE /\ fatalWhy' = fatalWhy
    /\ UNCHANGED <<uri, clients, idx, msg, ticks, healthy, gauge, msgCount,
                   initOk>>
    /\ UNCHANGED <<sessVars, callVars, closeVars, tickLog, delivered, h, faulty>>

SkipTickMut(readErr) == FALSE

\* lines 195-198: if err != nil { log the failure; continue }
SkipTick(readErr) == readErr

CountOnTickMut(n) == n + Len(clients)

\* line 206: msgCount.Inc(), once per tick, before the range loop
CountOnTick(n) == n + 1

\* case <-ticker.C, lines 194-206: read the sensor; on an error continue,
\* otherwise build the message, update the metrics and start the range loop.
Tick ==
    /\ pc = "loop"
    /\ ticks < (IF Len(clients) > 1 THEN MaxTicksBoth ELSE MaxTicks)
    /\ ticks' = ticks + 1
    /\ \E readOk \in BOOLEAN :
        /\ allMsgs' = IF readOk THEN Append(allMsgs, ticks + 1) ELSE allMsgs
        /\ IF SkipTick(~readOk)
           THEN UNCHANGED <<msg, gauge, msgCount, called, idx, pc>>
           ELSE /\ msg' = ticks + 1
                /\ gauge' = ticks + 1
                /\ msgCount' = CountOnTick(msgCount)
                /\ called' = <<>>
                /\ idx' = 1
                /\ pc' = "dispatch"
    /\ UNCHANGED <<uri, clients, healthy, listening, fatalWhy, initOk,
                   signalled, ncalls, lost>>
    /\ UNCHANGED <<sessVars, callVars, closeVars, delivered, h, faulty>>

\* line 209: c.client.PublishJSON(msg) is entered for clients[idx]
Dispatch ==
    /\ pc = "dispatch"
    /\ callPc = "idle"
    /\ idx <= Len(clients)
    /\ Call(clients[idx], msg)
    /\ called' = Append(called, clients[idx])
    /\ UNCHANGED <<allMsgs, signalled, ncalls, lost>>
    /\ UNCHANGED <<mainVars, sessVars, closeVars, delivered, faulty>>

\* lines 209-212: PublishJSON returned; log an error, next client or next select
DispatchReturn ==
    /\ pc = "dispatch"
    /\ callPc = "ret"
    /\ Returned
    /\ idx' = AfterPublish(idx, result)
    /\ pc' = IF AfterPublish(idx, result) > Len(clients) THEN "loop" ELSE "dispatch"
    /\ UNCHANGED <<uri, clients, msg, ticks, healthy, listening, fatalWhy, gauge,
                   msgCount, initOk>>
    /\ Forget
    /\ lost' = IF result = "exhausted" THEN [lost EXCEPT ![callee] = payload] ELSE lost
    /\ UNCHANGED <<allMsgs, called, signalled, ncalls>>
    /\ UNCHANGED <<closeVars, delivered, faulty>>

SignalMut ==
    /\ pc = "loop"
    /\ healthy' = healthy
    /\ signalled' = TRUE
    /\ idx' = 1
    /\ pc' = "closing"
    /\ UNCHANGED <<uri, clients, msg, ticks, listening, fatalWhy, gauge,
                   msgCount, initOk>>
    /\ UNCHANGED <<allMsgs, called, ncalls, lost>>
    /\ UNCHANGED <<sessVars, callVars, closeVars, delivered, h, faulty>>

\* case <-sigChan, lines 214-215: healthy = false, then the close loop starts
Signal ==
    /\ pc = "loop"
    /\ healthy' = FALSE
    /\ signalled' = TRUE
    /\ idx' = 1
    /\ pc' = "closing"
    /\ UNCHANGED <<uri, clients, msg, ticks, listening, fatalWhy, gauge,
                   msgCount, initOk>>
    /\ UNCHANGED <<allMsgs, called, ncalls, lost>>
    /\ UNCHANGED <<sessVars, callVars, closeVars, delivered, h, faulty>>

\* lines 216-219: Close() on the next client; return after the last one
CloseNext ==
    /\ pc = "closing"
    /\ idx <= Len(clients)
    /\ Closed(ShutdownTarget(idx))
    /\ idx' = idx + 1
    /\ pc' = IF idx + 1 > Len(clients) THEN "done" ELSE "closing"
    /\ UNCHANGED <<uri, clients, msg, ticks, healthy, listening, fatalWhy, gauge,
                   msgCount, initOk>>
    /\ UNCHANGED <<callVars, tickLog, delivered, h, faulty>>

\* lines 173-180: what the /healthz handler answers
HealthzStatus == IF healthy THEN 200 ELSE 500

----------------------------------------------------------------------------
(* A program using package rabbitmq directly *)

\* rabbitmq.NewClient(...) or a zero-value rabbitmq.Client
HConstruct ==
    /\ pc = "hNew"
    /\ \E k \in ConnectOutcomes \cup {"zero"} :
        IF k = "zero"
        THEN pc' = "hReady" /\ UNCHANGED <<sessVars, initOk>>
        ELSE /\ Connected("local", k)
             /\ initOk' = [initOk EXCEPT !["local"] = NewClient("local", k).err]
             /\ pc' = IF NewClient("local", k).err = "nil" THEN "hReady" ELSE "hNew"
    /\ UNCHANGED <<uri, clients, idx, msg, ticks, healthy, listening, fatalWhy,
                   gauge, msgCount>>
    /\ UNCHANGED <<callVars, closeVars, tickLog, delivered, h, faulty>>

\* client.PublishJSON(p) with any payload
HPublish ==
    /\ pc = "hReady"
    /\ callPc = "idle"
    /\ ncalls < MaxCalls
    /\ ncalls' = ncalls + 1
    /\ \E p \in 0..MaxMsg : Call("local", p)
    /\ UNCHANGED <<allMsgs, called, signalled, lost>>
    /\ UNCHANGED <<mainVars, sessVars, closeVars, delivered, faulty>>

\* PublishJSON returned to the program
HReturn ==
    /\ pc = "hReady"
    /\ callPc = "ret"
    /\ Returned
    /\ Forget
    /\ UNCHANGED <<mainVars, closeVars, tickLog, delivered, faulty>>

\* client.Close()
HClose ==
    /\ pc = "hReady"
    /\ callPc = "idle"
    /\ Len(closeCalls) < MaxCloses
    /\ Closed("local")
    /\ UNCHANGED <<mainVars, callVars, tickLog, delivered, h, faulty>>

----------------------------------------------------------------------------
ZeroState ==
    /\ clients = <<>>
    /\ idx = 0
    /\ msg = 0
    /\ ticks = 0
    /\ healthy = TRUE
    /\ listening = FALSE
    /\ fatalWhy = ""
    /\ gauge = 0
    /\ msgCount = 0
    /\ initOk = [n \in Names |-> "none"]
    /\ conn = [n \in Names |-> 0]
    /\ channel = [n \in Names |-> 0]
    /\ connOpen = {}
    /\ chanOpen = {}
    /\ callPc = "idle"
    /\ callee = "local"
    /\ payload = 0
    /\ i = 0
    /\ backoff = 0
    /\ result = "nil"
    /\ delivered = [n \in Names |-> <<>>]
    /\ closeCalls = <<>>
    /\ released = <<>>
    /\ h = NoHist
    /\ faulty = {}
    /\ allMsgs = <<>>
    /\ called = <<>>
    /\ signalled = FALSE
    /\ ncalls = 0
    /\ lost = [n \in Names |-> 0]

Init ==
    /\ pc = "start"
    /\ uri \in [Names -> BOOLEAN]
    /\ ZeroState

Next ==
    \/ Startup \/ RegLocal \/ RegRemote \/ Check
    \/ Tick \/ Dispatch \/ DispatchReturn
    \/ Signal \/ CloseNext
    \/ PublishJSON \/ reconnectSleep \/ reconnectConnect
    \/ BrokerCloseConn \/ BrokerCloseChannel

Spec == Init /\ [][Next]_vars

\* The steps of main's goroutine that do not wait for the ticker or a signal:
\* each is taken once it is enabled (a sleep ends, a call returns).
MainStep ==
    \/ Startup \/ RegLocal \/ RegRemote \/ Check
    \/ Dispatch \/ DispatchReturn \/ CloseNext
    \/ PublishJSON \/ reconnectSleep \/ reconnectConnect

FairSpec == Spec /\ WF_vars(MainStep)

InitClient ==
    /\ pc = "hNew"
    /\ uri = [n \in Names |-> n = "local"]
    /\ ZeroState

NextClient ==
    \/ HConstruct \/ HPublish \/ HReturn \/ HClose
    \/ PublishJSON \/ reconnectSleep \/ reconnectConnect
    \/ BrokerCloseConn \/ BrokerCloseChannel

SpecClient == InitClient /\ [][NextClient]_vars

TypeOK ==
    /\ pc \in {"start", "regLocal", "regRemote", "check", "loop", "dispatch",
               "closing", "done", "fatal", "hNew", "hReady"}
    /\ callPc \in {"idle", "publish", "sleep", "connect", "ret", "panic"}
    /\ \A n \in Names : conn[n] \in Pool(n) \cup {0} /\ channel[n] = conn[n]
    /\ connOpen \subseteq Handles
    /\ chanOpen \subseteq Handles
    /\ callee \in Names

----------------------------------------------------------------------------
(* Properties *)

Last(q) == q[Len(q)]
Registered(c) == InSeq(c, clients)
Bodies(ids) == [k \in 1..Len(ids) |-> Marshal(ids[k]).body]

\* The current call has had exactly its payload's body accepted, once.
SentOnce ==
    /\ Sent = 1
    /\ Last(delivered[callee]) = <<"application/json", payload>>

\* C1: a PublishJSON(m) whose send on the session's channel is accepted has
\* returned nil with m transmitted exactly once, and without any connect()
\* or sleep.
C1_ConnectedPublish ==
    (callPc = "ret" /\ h.firstSend = "nil") =>
        /\ result = "nil"
        /\ SentOnce
        /\ h.connects = 0
        /\ h.slept = 0
        /\ h.depth = 0
        /\ h.lastOp = "send:nil"

C1_Witness ==
    /\ callPc = "ret"
    /\ h.firstSend = "nil"
    /\ payload = 1
    /\ delivered["local"] = <<<<"application/json", 1>>>>

\* C2 as stated: when the first send finds the channel closed and the k-th
\* connect() of the reconnect cycle is the first to succeed, m is transmitted
\* exactly once, after sleeps of at least 1+2+...+2^(k-1) seconds.
C2_Original ==
    (callPc = "ret" /\ h.firstSend = "ErrClosed" /\ h.firstOk \in 1..MaxAttempts) =>
        /\ SentOnce
        /\ h.sentAt >= Pow2(h.firstOk) - 1

\* C2 amended: when the first send finds the channel closed and the k-th
\* connect() of the reconnect cycle is the first to succeed, the cycle has
\* made k connect() calls and slept 1+2+...+2^(k-1) seconds, and m is then
\* sent again; if that send is accepted, PublishJSON returns nil with m
\* transmitted exactly once, after those sleeps.
C2_ReconnectThenSent ==
    (callPc = "ret" /\ h.firstSend = "ErrClosed" /\ h.firstOk \in 1..MaxAttempts) =>
        /\ h.slept = Pow2(h.firstOk) - 1
        /\ h.connects = h.firstOk
        /\ h.retrySend \in {"nil", "other"}
        /\ h.retrySend = "nil" =>
            /\ result = "nil"
            /\ SentOnce
            /\ h.sentAt = Pow2(h.firstOk) - 1

C2_Witness ==
    /\ callPc = "ret"
    /\ h.firstSend = "ErrClosed"
    /\ h.firstOk = 3
    /\ h.retrySend = "nil"
    /\ h.sentAt = 7
    /\ Sent = 1

\* C3: PublishJSON returns the retries-exhausted error exactly when all 5
\* connect() attempts of its last reconnect cycle failed; that cycle made
\* exactly 5 attempts and the message was not transmitted at all.
C3_Exhausted ==
    callPc = "ret" =>
        /\ (h.cycFails = 5) <=> (result = "exhausted")
        /\ result = "exhausted" =>
            /\ h.cycConnects = 5
            /\ h.lastOp = "connect:dial failed"
               \/ h.lastOp = "connect:channel failed"
               \/ h.lastOp = "connect:queue declare failed"
            /\ Sent = 0
            /\ h.depth = 1 => h.connects = 5

C3_Witness ==
    /\ callPc = "ret"
    /\ result = "exhausted"
    /\ h.depth = 1
    /\ h.cycFails = 5
    /\ payload = 1
    /\ delivered["local"] = <<>>

\* C4: a PublishJSON whose payload cannot be serialized returns the
\* serialization error at once: nothing is transmitted, no connect() and no
\* sleep happens, and the session's handles are the ones it started with.
C4_SerializationError ==
    (callPc # "idle" /\ payload <= 0) =>
        /\ callPc \in {"publish", "ret"}
        /\ callPc = "ret" => result = "marshal" /\ h.lastOp = "marshal:err"
        /\ Sent = 0
        /\ h.connects = 0
        /\ h.slept = 0
        /\ h.depth = 0
        /\ <<conn[callee], channel[callee]>> = h.handles0

C4_Witness ==
    /\ callPc = "ret"
    /\ payload = 0
    /\ result = "marshal"
    /\ conn["local"] # 0

\* C5: once a send has failed with an error other than connection-closed,
\* PublishJSON has returned that error: no sleep, connect() or send follows
\* it, and nothing was transmitted by the call.
C5_OtherError ==
    /\ h.lastOp = "send:other" =>
        /\ callPc = "ret"
        /\ result = "other"
        /\ Sent = 0
    /\ h.firstSend = "other" =>
        /\ h.lastOp = "send:other"
        /\ h.connects = 0
        /\ h.slept = 0
        /\ h.depth = 0

C5_Witness ==
    /\ callPc = "ret"
    /\ result = "other"
    /\ h.firstSend = "other"

\* C6: on every tick whose read succeeded, each registered destination gets
\* the tick's message delivered unless the broker faults that destination
\* itself, whatever happens on the other destination and whichever was
\* registered first.
C6_DeliveredEveryTick ==
    \A a \in Names :
        (pc = "dispatch" /\ Registered(a))
            ~> (delivered[a] = Bodies(allMsgs) \/ a \in faulty)

\* The part of C6 the range loop does ensure: whenever a tick's loop is over,
\* a registered destination the broker never faulted has received the
\* message of every tick whose read succeeded.
C6_FaultIsolation ==
    pc \in {"loop", "closing", "done"} =>
        \A a \in Names :
            (Registered(a) /\ a \notin faulty) => delivered[a] = Bodies(allMsgs)

C6_Witness ==
    /\ pc = "loop"
    /\ clients = <<"local", "remote">>
    /\ allMsgs = <<1>>
    /\ "local" \in faulty
    /\ delivered["local"] = <<>>
    /\ "remote" \notin faulty
    /\ delivered["remote"] = Bodies(<<1>>)

\* C7: once registration is over, the registered clients are exactly the
\* endpoints with a non-empty URI whose NewClient succeeded, local before
\* remote; a failed local connect does not stop the registration of remote;
\* the process dies with "no connections" exactly when none is registered,
\* before the HTTP goroutine and the ticker loop start, and runs otherwise.
StartupOver == pc \in {"check", "loop", "dispatch", "closing", "done"} \/ fatalWhy = "noclients"

C7_Startup ==
    /\ pc = "regRemote" =>
        (Registered("local") <=> (uri["local"] /\ initOk["local"] = "nil"))
    /\ StartupOver =>
        /\ \A c \in Names : Registered(c) <=> (uri[c] /\ initOk[c] = "nil")
        /\ clients = SelectSeq(<<"local", "remote">>, Registered)
    /\ fatalWhy = "noclients" => pc = "fatal"
    /\ pc = "fatal" =>
        /\ clients = <<>>
        /\ ~listening
        /\ ticks = 0
    /\ pc \in {"loop", "dispatch", "closing", "done"} =>
        /\ Len(clients) >= 1
        /\ listening
        /\ fatalWhy = ""

C7_Witness ==
    /\ pc = "loop"
    /\ uri["local"]
    /\ initOk["local"] = "dial failed"
    /\ clients = <<"remote">>
    /\ listening

\* C8: from the shutdown signal on the health flag is false and no
\* PublishJSON call is in progress or started; the close loop has called
\* Close() on the registered clients in registration order, once each, when
\* main returns; before the signal no Close() is called.
C8_Shutdown ==
    /\ signalled <=> pc \in {"closing", "done"}
    /\ signalled => ~healthy /\ callPc = "idle"
    /\ ~signalled => healthy /\ closeCalls = <<>>
    /\ pc = "closing" => closeCalls = SubSeq(clients, 1, idx - 1)
    /\ pc = "done" => closeCalls = clients

C8_Witness ==
    /\ pc = "done"
    /\ clients = <<"local", "remote">>
    /\ closeCalls = <<"local", "remote">>
    /\ ~healthy

\* C9: every Close() releases the channel and then the connection, each only
\* if it is set, neither release panics (their errors are dropped), the
\* handles stay stored and are closed afterwards, and a Close() of a session
\* whose handles are closed already changes nothing of the session.
CloseStep(c) ==
    /\ \A k \in 1..Len(released') : released'[k].res \in {"nil", "ErrClosed"}
    /\ [k \in 1..Len(released') |-> released'[k].what]
         = (IF channel[c] # 0 THEN <<"channel">> ELSE <<>>)
           \o (IF conn[c] # 0 THEN <<"conn">> ELSE <<>>)
    /\ conn' = conn
    /\ channel' = channel
    /\ conn[c] \notin connOpen'
    /\ channel[c] \notin chanOpen'
    /\ (conn[c] \notin connOpen /\ channel[c] \notin chanOpen) =>
           (connOpen' = connOpen /\ chanOpen' = chanOpen)

C9_Close == [][closeCalls' # closeCalls => CloseStep(Last(closeCalls'))]_vars

C9_Witness ==
    /\ Len(closeCalls) = 2
    /\ conn["local"] # 0
    /\ released = <<[what |-> "channel", res |-> "ErrClosed"],
                    [what |-> "conn", res |-> "ErrClosed"]>>

\* C10: a reconnect cycle calls connect() at most 5 times, each call right
\* after one sleep, the k-th sleep lasting 2^(k-1) seconds, and after its
\* first successful connect() it neither sleeps nor connects again.
C10_Backoff ==
    callPc # "idle" =>
        /\ h.cycConnects <= 5
        /\ Len(h.cycSleeps) <= 5
        /\ \A k \in 1..Len(h.cycSleeps) : h.cycSleeps[k] = Pow2(k - 1)
        /\ callPc = "connect" =>
            /\ h.lastOp = "sleep"
            /\ Len(h.cycSleeps) = h.cycConnects + 1
        /\ callPc # "connect" => Len(h.cycSleeps) = h.cycConnects
        /\ h.cycConnects > h.cycFails =>
            /\ h.cycConnects = h.cycFails + 1
            /\ callPc \in {"publish", "ret", "panic"}

C10_Witness ==
    /\ h.cycSleeps = <<1, 2, 4, 8, 16>>
    /\ h.lastOp = "connect:nil"
    /\ callPc = "publish"

\* C11: every PublishJSON call that is entered eventually returns to its
\* caller (with nil, a non-retryable error or "retries exhausted"), whatever
\* the broker does.
C11_PublishReturns == (callPc = "publish") ~> (callPc = "ret")

\* The part of C11 about the ticker: a tick is serviced only while no
\* PublishJSON call is in progress.
C11_TickAfterReturn == [][ticks' # ticks => callPc = "idle"]_vars

\* The current call is main's first PublishJSON on its session since the one
\* that returned "retries exhausted".
AfterLost ==
    /\ callPc # "idle"
    /\ Len(allMsgs) >= 2
    /\ lost[callee] = allMsgs[Len(allMsgs) - 1]
    /\ payload = Last(allMsgs)

\* C12: a message whose PublishJSON returned "retries exhausted" is never
\* transmitted afterwards and its client stays registered; the next
\* PublishJSON on that client finds the channel closed and runs a reconnect
\* cycle, a successful connect() of which is followed by a send of the new
\* message, and an accepted send transmits the new message, once.
C12_AfterExhausted ==
    /\ \A c \in Names : lost[c] # 0 =>
        /\ Registered(c)
        /\ ~InSeq(Marshal(lost[c]).body, delivered[c])
    /\ (AfterLost /\ callPc = "ret") =>
        /\ h.firstSend = "ErrClosed"
        /\ h.depth >= 1
        /\ h.lastOp # "connect:nil"
        /\ h.lastOp = "send:nil" => (result = "nil" /\ SentOnce)

C12_Witness ==
    /\ AfterLost
    /\ callPc = "ret"
    /\ lost[callee] = 1
    /\ payload = 2
    /\ h.firstOk > 0
    /\ h.lastOp = "send:nil"
    /\ delivered[callee] = <<Marshal(2).body>>

\* The calls of the current tick's range loop so far: one per client, in the
\* order of clients, each with the tick's message.
CalledInOrder ==
    /\ pc = "dispatch" =>
        /\ called = SubSeq(clients, 1, IF callPc = "idle" THEN idx - 1 ELSE idx)
        /\ callPc # "idle" =>
            /\ callee = clients[idx]
            /\ payload = msg
            /\ msg = Last(allMsgs)
    /\ (pc \in {"loop", "closing", "done"} /\ allMsgs # <<>>) => called = clients
    /\ \A j, k \in 1..Len(clients) :
        (clients[j] = "local" /\ clients[k] = "remote") => j < k

ReadFailed == ticks' = ticks + 1 /\ allMsgs' = allMsgs

\* C14: a tick whose read fails is skipped: no PublishJSON call is made, the
\* gauge and the counter keep their values, nothing is transmitted, the
\* process neither exits nor changes its health flag, and main is back at the
\* select, waiting for the next tick or a signal.
C14_SkippedTick ==
    [][ReadFailed =>
        /\ pc' = "loop"
        /\ callPc' = "idle"
        /\ called' = called
        /\ delivered' = delivered
        /\ gauge' = gauge
        /\ msgCount' = msgCount
        /\ msg' = msg
        /\ fatalWhy' = fatalWhy
        /\ healthy' = healthy]_vars

C14_Witness ==
    /\ ticks = 2
    /\ allMsgs = <<2>>
    /\ pc = "dispatch"
    /\ gauge = 2
    /\ msgCount = 1

StageOrder == <<"dial", "channel", "declare">>
StageError(name) ==
    CASE name = "dial" -> "dial failed"
      [] name = "channel" -> "channel failed"
      [] OTHER -> "queue declare failed"

\* C15: connect() calls dial, channel creation and queue declaration in that
\* order, calls no stage after one that failed, returns the error of the
\* stage that failed, and returns nil only when all three succeeded.
C15_ConnectStages ==
    h.stages # <<>> =>
        LET n == Len(h.stages) IN
        /\ n <= 3
        /\ \A k \in 1..n : h.stages[k].stage = StageOrder[k]
        /\ \A k \in 1..(n - 1) : h.stages[k].ok
        /\ ~h.stages[n].ok => h.lastOp = "connect:" \o StageError(h.stages[n].stage)
        /\ h.stages[n].ok => (n = 3 /\ h.lastOp = "connect:nil")
        /\ h.lastOp = "connect:nil" => \A k \in 1..3 : h.stages[k].ok

C15_Witness ==
    /\ h.stages = <<Stage("dial", TRUE), Stage("channel", FALSE)>>
    /\ h.lastOp = "connect:channel failed"
    /\ callPc = "sleep"

\* C16: the health flag is true, and /healthz answers 200, in every state
\* before the shutdown signal, whatever PublishJSON returned; the flag is
\* false from the signal on; it changes only on the step that starts the
\* shutdown sequence and is never set back to true.
C16_Health ==
    /\ [](~signalled => (healthy /\ HealthzStatus = 200))
    /\ [](signalled => ~healthy)
    /\ [][healthy' # healthy => (pc = "loop" /\ pc' = "closing" /\ ~healthy')]_vars
    /\ [][~healthy => ~healthy']_vars

C16_Witness ==
    /\ healthy
    /\ pc = "dispatch"
    /\ callPc = "ret"
    /\ result = "exhausted"
    /\ lost[callee] = 1
    /\ HealthzStatus = 200

\* A step of reconnectWithBackoff whose connect() returns nil.
ConnectOk == callPc = "connect" /\ h'.lastOp = "connect:nil"

\* C17: a connect() that succeeds on a session holding handles stores a
\* newly created, open connection and channel in place of both, and the
\* previous connection and channel are as open or closed as they were.
C17_ReplacesHandles ==
    [][(ConnectOk /\ conn[callee] # 0 /\ channel[callee] # 0) =>
        /\ conn'[callee] \notin Referenced
        /\ channel'[callee] \notin Referenced
        /\ conn'[callee] = channel'[callee]
        /\ conn'[callee] \in connOpen'
        /\ channel'[callee] \in chanOpen'
        /\ conn[callee] \in connOpen' <=> conn[callee] \in connOpen
        /\ channel[callee] \in chanOpen' <=> channel[callee] \in chanOpen]_vars

C17_Witness ==
    /\ callPc = "publish"
    /\ h.lastOp = "connect:nil"
    /\ h.handles0[1] \in connOpen
    /\ h.handles0[1] # conn[callee]
    /\ conn[callee] \in connOpen

\* A step in which a connect() returns an error: inside reconnectWithBackoff,
\* or inside NewClient.
ConnectFailed ==
    \/ callPc = "connect" /\ h'.cycFails = h.cycFails + 1
    \/ \E c \in Names : initOk'[c] # initOk[c] /\ initOk'[c] # "nil"

\* C18: a connect() that fails leaves the stored connection and channel of
\* every session as they were, and in every state the connection and the
\* channel a session stores were created by the same connect() call (or are
\* both nil).
C18_FailedConnectFrame ==
    /\ [](\A c \in Names : channel[c] = conn[c])
    /\ [][ConnectFailed =>
            /\ conn' = conn
            /\ channel' = channel
            /\ \A c \in Names :
                /\ conn[c] \in connOpen' <=> conn[c] \in connOpen
                /\ channel[c] \in chanOpen' <=> channel[c] \in chanOpen]_vars

C18_Witness ==
    /\ callPc = "sleep"
    /\ h.lastOp = "connect:queue declare failed"
    /\ <<conn[callee], channel[callee]>> = h.handles0
    /\ conn[callee] # 0
    /\ conn[callee] \in connOpen
    /\ channel[callee] \notin chanOpen

\* C19: whatever the broker does, one top-level PublishJSON(m) has at most
\* one body accepted, that body is m's, nothing more happens in the call
\* after it, and the call returns nil exactly when a body was accepted.
C19_AtMostOnce ==
    callPc # "idle" =>
        /\ Sent \in {0, 1}
        /\ Sent = 1 =>
            /\ Last(delivered[callee]) = Marshal(payload).body
            /\ callPc = "ret"
        /\ callPc = "ret" => (result = "nil" <=> Sent = 1)

C19_Witness ==
    /\ callPc = "ret"
    /\ h.depth = 2
    /\ h.firstSend = "ErrClosed"
    /\ result = "nil"
    /\ Sent = 1
    /\ callee \in faulty

====
